---- MODULE Spec2Model ----
(***************************************************************************)
(* Demand-paged virtual memory simulator (src/pages.c): a two-level page   *)
(* table, a first-fit physical frame allocator, a translator with          *)
(* permission checks, and read/write access routines that service a        *)
(* translation miss with the page-fault handler and retry once.            *)
(*                                                                         *)
(* Every C function is a pure operator over a record s of the four         *)
(* globals (page_table, phys_pages_used, RAM, stats) that returns the new  *)
(* globals together with the function's return value; the actions apply    *)
(* one public function to the current globals.                             *)
(*                                                                         *)
(* RAM is the 1 MB byte array.  It is represented by the finite function   *)
(* of its nonzero bytes (address |-> byte); an address outside the domain  *)
(* holds 0, which is what the zero-initialised global holds at start.      *)
(* phys_pages_used, an array of bool, is the set of the indices that hold  *)
(* true.                                                                   *)
(* malloc is taken to succeed.                                             *)
(***************************************************************************)
EXTENDS Integers, Sequences, FiniteSets, TLC

\* ------------------------------------------------------------------ constants
RAM_SIZE == 1048576
PAGE_SIZE == 4096
NUM_PHYS_PAGES == RAM_SIZE \div PAGE_SIZE
L1_ENTRIES == 16
L2_ENTRIES == 16
PTE_VALID == 1
PTE_WRITE == 2
PTE_READ == 4

\* the null L2Table pointer: a table with no entries
NULL == [entries |-> <<>>]

\* ------------------------------------------------------------- model bounds
\* number of calls of the public functions explored from program start
MaxCalls == 3

\* ---------------------------------------------------------------- C integers
U8(x) == x % 256
U16(x) == x % 65536
\* uint32_t counter increment.  A counter wraps only after 2^32 increments,
\* far beyond the MaxCalls calls explored (each call adds at most 2), so the
\* wrap is never taken here.
Inc32(x) == x + 1

\* (flags & bit) != 0, for a single-bit mask
HasFlag(flags, bit) == (flags \div bit) % 2 = 1
\* flags | bit, for a single-bit mask
OrFlag(flags, bit) == IF HasFlag(flags, bit) THEN flags ELSE flags + bit

\* ----------------------------------------------------------------- RAM bytes
RAMget(ram, a) == IF a \in DOMAIN ram THEN ram[a] ELSE 0

RAMset(ram, a, v) ==
  IF v = 0
    THEN [x \in (DOMAIN ram) \ {a} |-> ram[x]]
    ELSE [x \in (DOMAIN ram) \cup {a} |-> IF x = a THEN v ELSE ram[x]]

\* memset(&RAM[base], 0, len)
RAMzero(ram, base, len) ==
  [x \in {y \in DOMAIN ram : y < base \/ y >= base + len} |-> ram[x]]

VARIABLES page_table, phys_pages_used, RAM, stats, hist, ncalls, thr

vars == <<page_table, phys_pages_used, RAM, stats, hist, ncalls, thr>>

\* the four globals as one value
Globals ==
  [page_table |-> page_table, phys_pages_used |-> phys_pages_used,
   RAM |-> RAM, stats |-> stats]

\* ------------------------------------------------------------------ init_vm
\* bug variant: the frame-used bitmap is not cleared
init_vm_keepused(s) ==
  [s |-> [s EXCEPT
            !.page_table = [tables |-> [i \in 0..(L1_ENTRIES - 1) |-> NULL]],
            !.stats = [page_faults |-> 0, reads |-> 0, writes |-> 0,
                       translation_failures |-> 0]],
   ret |-> 0]

init_vm(s) ==
  [s |-> [s EXCEPT
            !.page_table = [tables |-> [i \in 0..(L1_ENTRIES - 1) |-> NULL]],
            !.phys_pages_used = {},
            !.stats = [page_faults |-> 0, reads |-> 0, writes |-> 0,
                       translation_failures |-> 0]],
   ret |-> 0]

\* -------------------------------------------------------------- allocate_L2
allocate_L2 ==
  [entries |-> [i \in 0..(L2_ENTRIES - 1) |-> [phys_page |-> -1, flags |-> 0]]]

\* ------------------------------------------------------- allocate_phys_page
\* bug variant: the scan stops one frame short (i < NUM_PHYS_PAGES - 1)
FirstFree_short(used) ==
  IF \E i \in 0..(NUM_PHYS_PAGES - 2) : i \notin used
    THEN CHOOSE i \in 0..(NUM_PHYS_PAGES - 2) :
           /\ i \notin used
           /\ \A j \in 0..(i - 1) : j \in used
    ELSE -1

FirstFree(used) ==
  IF \E i \in 0..(NUM_PHYS_PAGES - 1) : i \notin used
    THEN CHOOSE i \in 0..(NUM_PHYS_PAGES - 1) :
           /\ i \notin used
           /\ \A j \in 0..(i - 1) : j \in used
    ELSE -1

\* bug variant: the frame is handed out without the memset
allocate_phys_page_nozero(s) ==
  LET i == FirstFree(s.phys_pages_used)
  IN IF i >= 0
       THEN [s |-> [s EXCEPT !.phys_pages_used = @ \cup {i}], ret |-> i]
       ELSE [s |-> s, ret |-> -1]

\* bug variant: the frame is returned without being marked used
allocate_phys_page_nomark(s) ==
  LET i == FirstFree(s.phys_pages_used)
  IN IF i >= 0
       THEN [s |-> [s EXCEPT !.RAM = RAMzero(@, i * PAGE_SIZE, PAGE_SIZE)],
             ret |-> i]
       ELSE [s |-> s, ret |-> -1]

\* bug variant: the used test is dropped, frame 0 is handed out every time
allocate_phys_page_nocheck(s) ==
  [s |-> [s EXCEPT !.phys_pages_used = @ \cup {0},
                   !.RAM = RAMzero(@, 0, PAGE_SIZE)],
   ret |-> 0]

allocate_phys_page(s) ==
  LET i == FirstFree(s.phys_pages_used)
  IN IF i >= 0
       THEN [s |-> [s EXCEPT !.phys_pages_used = @ \cup {i},
                             !.RAM = RAMzero(@, i * PAGE_SIZE, PAGE_SIZE)],
             ret |-> i]
       ELSE [s |-> s, ret |-> -1]

\* ----------------------------------------------------------- free_phys_page
free_phys_page(s, phys_page) ==
  IF phys_page >= 0 /\ phys_page < NUM_PHYS_PAGES
    THEN [s EXCEPT !.phys_pages_used = @ \ {phys_page}]
    ELSE s

\* ----------------------------------------------------------------- map_page
VirtPageOob(virt_page) == virt_page >= L1_ENTRIES * L2_ENTRIES

\* bug variant: off by one (phys_page > NUM_PHYS_PAGES)
PhysPageOob_gt(phys_page) == phys_page > NUM_PHYS_PAGES

PhysPageOob(phys_page) == phys_page >= NUM_PHYS_PAGES

\* bug variant: the frame of the entry that is overwritten is freed
map_page_autofree(s, virt_page, phys_page, flags) ==
  IF VirtPageOob(virt_page) THEN [s |-> s, ret |-> -1]
  ELSE IF PhysPageOob(phys_page) THEN [s |-> s, ret |-> -1]
  ELSE
    LET l1 == (virt_page \div 16) % 16
        l2 == virt_page % 16
        t  == IF s.page_table.tables[l1] = NULL
                THEN allocate_L2
                ELSE s.page_table.tables[l1]
        e  == [phys_page |-> phys_page, flags |-> OrFlag(U8(flags), PTE_VALID)]
    IN [s |-> [s EXCEPT
                 !.page_table.tables[l1] = [t EXCEPT !.entries[l2] = e],
                 !.phys_pages_used =
                    (@ \ {t.entries[l2].phys_page}) \cup {phys_page}],
        ret |-> 0]

map_page(s, virt_page, phys_page, flags) ==
  IF VirtPageOob(virt_page) THEN [s |-> s, ret |-> -1]
  ELSE IF PhysPageOob(phys_page) THEN [s |-> s, ret |-> -1]
  ELSE
    LET l1 == (virt_page \div 16) % 16
        l2 == virt_page % 16
        t  == IF s.page_table.tables[l1] = NULL
                THEN allocate_L2
                ELSE s.page_table.tables[l1]
        e  == [phys_page |-> phys_page, flags |-> OrFlag(U8(flags), PTE_VALID)]
    IN [s |-> [s EXCEPT
                 !.page_table.tables[l1] = [t EXCEPT !.entries[l2] = e],
                 !.phys_pages_used = @ \cup {phys_page}],
        ret |-> 0]

\* ---------------------------------------------------------------- translate
\* bug variant: a failure is returned without counting it
TranslateFail_nocount(s, r) == [s |-> s, ret |-> r, paddr |-> -1]

TranslateFail(s, r) ==
  [s |-> [s EXCEPT !.stats.translation_failures = Inc32(@)],
   ret |-> r, paddr |-> -1]

\* bug variant: off by one (vaddr > RAM_SIZE)
VaddrOob_gt(vaddr) == vaddr > RAM_SIZE

VaddrOob(vaddr) == vaddr >= RAM_SIZE

PermDenied(flags, is_write) ==
  \/ is_write /\ ~HasFlag(flags, PTE_WRITE)
  \/ ~is_write /\ ~HasFlag(flags, PTE_READ)

\* bug variant: the frame base is left out (paddr = off)
PhysAddr_nobase(phys_page, off) == off

\* int * int + uint16_t, at most 65535 * 4096 + 4095 < 2^32: no wrap
PhysAddr(phys_page, off) == phys_page * PAGE_SIZE + off

translate(s, vaddr, is_write) ==
  IF VaddrOob(vaddr) THEN TranslateFail(s, -1)
  ELSE
    LET l1  == (vaddr \div 65536) % 16
        l2  == (vaddr \div 4096) % 16
        off == vaddr % 4096
        t   == s.page_table.tables[l1]
    IN IF t = NULL THEN TranslateFail(s, -1)
       ELSE
         LET entry == t.entries[l2]
             phys_page == entry.phys_page
         IN IF phys_page < 0 \/ ~HasFlag(entry.flags, PTE_VALID)
              THEN TranslateFail(s, -1)
            ELSE IF PermDenied(entry.flags, is_write)
              THEN TranslateFail(s, -2)
            ELSE
              LET paddr == PhysAddr(phys_page, off)
              IN IF paddr >= RAM_SIZE
                   THEN TranslateFail(s, -1)
                   ELSE [s |-> s, ret |-> 0, paddr |-> paddr]

\* --------------------------------------------------------------- unmap_page
\* bug variant: the frame is freed but the entry is not cleared
unmap_page_stale(s, virt_page) ==
  IF VirtPageOob(virt_page) THEN [s |-> s, ret |-> -1]
  ELSE
    LET l1 == (virt_page \div 16) % 16
        l2 == virt_page % 16
        t  == s.page_table.tables[l1]
    IN IF t = NULL THEN [s |-> s, ret |-> -1]
       ELSE
         LET phys_page == t.entries[l2].phys_page
         IN [s |-> IF phys_page >= 0 THEN free_phys_page(s, phys_page) ELSE s,
             ret |-> 0]

unmap_page(s, virt_page) ==
  IF VirtPageOob(virt_page) THEN [s |-> s, ret |-> -1]
  ELSE
    LET l1 == (virt_page \div 16) % 16
        l2 == virt_page % 16
        t  == s.page_table.tables[l1]
    IN IF t = NULL THEN [s |-> s, ret |-> -1]
       ELSE
         LET phys_page == t.entries[l2].phys_page
             s1 == IF phys_page >= 0 THEN free_phys_page(s, phys_page) ELSE s
         IN [s |-> [s1 EXCEPT !.page_table.tables[l1].entries[l2] =
                                 [phys_page |-> -1, flags |-> 0]],
             ret |-> 0]

\* ------------------------------------------------------- page_fault_handler
\* bug variant: the new mapping is installed read-only
page_fault_handler_ro(s, virt_page) ==
  LET s1 == [s EXCEPT !.stats.page_faults = Inc32(@)]
      a  == allocate_phys_page(s1)
  IN IF a.ret < 0
       THEN [s |-> a.s, ret |-> -1]
       ELSE map_page(a.s, virt_page, U16(a.ret), PTE_READ)

page_fault_handler(s, virt_page) ==
  LET s1 == [s EXCEPT !.stats.page_faults = Inc32(@)]
      a  == allocate_phys_page(s1)
  IN IF a.ret < 0
       THEN [s |-> a.s, ret |-> -1]
       ELSE map_page(a.s, virt_page, U16(a.ret), PTE_READ + PTE_WRITE)

\* bug variant: every failed translation is handed to the fault handler
NeedsFault_any(res) == res # 0

\* a failed first translation is handed to the fault handler when res == -1
NeedsFault(res) == res = -1

\* ------------------------------------------------ write_vmem and read_vmem
\* translate, and on res == -1 fault and translate once more; the common
\* prefix of write_vmem and read_vmem
\* bug variant: a second miss is handed to the fault handler once more
Access_retry(s, vaddr, is_write) ==
  LET t1 == translate(s, vaddr, is_write)
  IN IF NeedsFault(t1.ret)
       THEN LET virt_page == U16(vaddr \div 4096)
                h == page_fault_handler(t1.s, virt_page)
            IN IF h.ret # 0
                 THEN [s |-> h.s, ret |-> -1, paddr |-> -1, early |-> TRUE]
                 ELSE LET t2 == translate(h.s, vaddr, is_write)
                      IN IF NeedsFault(t2.ret)
                           THEN LET h2 == page_fault_handler(t2.s, virt_page)
                                IN IF h2.ret # 0
                                     THEN [s |-> h2.s, ret |-> -1,
                                           paddr |-> -1, early |-> TRUE]
                                     ELSE translate(h2.s, vaddr, is_write)
                                            @@ [early |-> FALSE]
                           ELSE t2 @@ [early |-> FALSE]
       ELSE t1 @@ [early |-> FALSE]

Access(s, vaddr, is_write) ==
  LET t1 == translate(s, vaddr, is_write)
  IN IF NeedsFault(t1.ret)
       THEN LET virt_page == U16(vaddr \div 4096)
                h == page_fault_handler(t1.s, virt_page)
            IN IF h.ret # 0
                 THEN [s |-> h.s, ret |-> -1, paddr |-> -1, early |-> TRUE]
                 ELSE translate(h.s, vaddr, is_write) @@ [early |-> FALSE]
       ELSE t1 @@ [early |-> FALSE]

write_vmem(s, vaddr, val) ==
  LET a == Access(s, vaddr, TRUE)
  IN IF a.early \/ a.ret # 0
       THEN [s |-> a.s, ret |-> -1, out |-> -1]
       ELSE [s |-> [a.s EXCEPT !.RAM = RAMset(@, a.paddr, val),
                               !.stats.writes = Inc32(@)],
             ret |-> 0, out |-> -1]

\* bug variant: the byte is read at the virtual address (RAM[vaddr])
read_vmem_untranslated(s, vaddr) ==
  LET a == Access(s, vaddr, FALSE)
  IN IF a.early \/ a.ret # 0
       THEN [s |-> a.s, ret |-> -1, out |-> -1]
       ELSE [s |-> [a.s EXCEPT !.stats.reads = Inc32(@)],
             ret |-> 0, out |-> RAMget(a.s.RAM, vaddr)]

read_vmem(s, vaddr) ==
  LET a == Access(s, vaddr, FALSE)
  IN IF a.early \/ a.ret # 0
       THEN [s |-> a.s, ret |-> -1, out |-> -1]
       ELSE [s |-> [a.s EXCEPT !.stats.reads = Inc32(@)],
             ret |-> 0, out |-> RAMget(a.s.RAM, a.paddr)]

\* --------------------------------------------------------------- free_pages
\* bug variant: the teardown also clears the frame-used bitmap
free_pages_clear(s) ==
  [s |-> [s EXCEPT !.page_table.tables = [i \in 0..(L1_ENTRIES - 1) |-> NULL],
                   !.phys_pages_used = {}],
   ret |-> 0]

free_pages(s) ==
  [s |-> [s EXCEPT !.page_table.tables = [i \in 0..(L1_ENTRIES - 1) |-> NULL]],
   ret |-> 0]

\* ------------------------------------------------------------------- inputs
\* virtual pages used by the callers: two in one first-level slot, one in
\* another (0x1F), and the first illegal one
InPages == {0, 1, 31}
OobPage == L1_ENTRIES * L2_ENTRIES
\* frames named by explicit map_page calls: the first frame the allocator
\* hands out, the last frame, and the first illegal one
InFrames == {0, NUM_PHYS_PAGES - 1}
OobFrame == NUM_PHYS_PAGES
PermSets == {PTE_READ, PTE_WRITE, PTE_READ + PTE_WRITE}
Offsets == {0, PAGE_SIZE - 1}
InAddrs == {p * PAGE_SIZE + o : p \in InPages, o \in Offsets}
\* addresses >= RAM_SIZE: one whose 16-bit page number is 256, one whose
\* 16-bit page number wraps to page 1 (0x10001000)
OobAddrs == {RAM_SIZE, 268435456 + PAGE_SIZE}
Addrs == InAddrs \cup OobAddrs
Bytes == {170, 187}
\* a write at an address >= RAM_SIZE never stores its byte: one byte is enough
WriteArgs ==
  {<<a, v>> : a \in InAddrs, v \in Bytes} \cup {<<a, 170>> : a \in OobAddrs}

MapArgs ==
  {<<p, f, fl>> : p \in InPages, f \in InFrames, fl \in PermSets}
    \cup {<<OobPage, 0, PTE_READ + PTE_WRITE>>,
          <<0, OobFrame, PTE_READ + PTE_WRITE>>}

\* ------------------------------------------------------------------ actions
\* program start: zero-initialised globals
\* two callers of one address space inside a concurrent host; each makes one
\* access. thr holds the callers that have entered write_vmem/read_vmem: pc
\* is the caller's position in it, phys_page and paddr are its locals.
Threads == {1, 2}

Init ==
  /\ page_table = [tables |-> [i \in 0..(L1_ENTRIES - 1) |-> NULL]]
  /\ phys_pages_used = {}
  /\ RAM = <<>>
  /\ stats = [page_faults |-> 0, reads |-> 0, writes |-> 0,
              translation_failures |-> 0]
  /\ hist = <<>>
  /\ ncalls = 0
  /\ thr = <<>>

\* the record of one call: its arguments, what it returned, and by how much
\* it raised stats.page_faults
Call(op, a1, a2, a3, r) ==
  [op |-> op, a1 |-> a1, a2 |-> a2, a3 |-> a3, ret |-> r.ret,
   out |-> IF "out" \in DOMAIN r THEN r.out ELSE -1,
   pf |-> r.s.stats.page_faults - stats.page_faults]

\* install the globals a call produced and remember the last two calls
Done(r, c) ==
  /\ page_table' = r.s.page_table
  /\ phys_pages_used' = r.s.phys_pages_used
  /\ RAM' = r.s.RAM
  /\ stats' = r.s.stats
  /\ hist' = IF Len(hist) < 2 THEN Append(hist, c) ELSE <<hist[2], c>>
  /\ ncalls' = ncalls + 1
  /\ thr' = thr

do_init_vm ==
  LET r == init_vm(Globals) IN Done(r, Call("init_vm", -1, -1, -1, r))

do_free_pages ==
  LET r == free_pages(Globals) IN Done(r, Call("free_pages", -1, -1, -1, r))

do_map_page(args) ==
  \E a \in args :
    LET r == map_page(Globals, a[1], a[2], a[3])
    IN Done(r, Call("map_page", a[1], a[2], a[3], r))

do_unmap_page(pages) ==
  \E p \in pages :
    LET r == unmap_page(Globals, p)
    IN Done(r, Call("unmap_page", p, -1, -1, r))

do_write_vmem(args) ==
  \E a \in args :
    LET r == write_vmem(Globals, a[1], a[2])
    IN Done(r, Call("write_vmem", a[1], a[2], -1, r))

do_read_vmem(addrs) ==
  \E a \in addrs :
    LET r == read_vmem(Globals, a)
    IN Done(r, Call("read_vmem", a, -1, -1, r))

\* a direct caller of translate(vaddr, &paddr, is_write); out is *out_paddr
do_translate(args) ==
  \E a \in args :
    LET r == translate(Globals, a[1], a[2])
    IN Done(r, Call("translate", a[1], IF a[2] THEN 1 ELSE 0, -1,
                    [s |-> r.s, ret |-> r.ret, out |-> r.paddr]))

\* ---- any caller: up to MaxCalls calls with arguments from the input sets
call_init_vm == ncalls < MaxCalls /\ do_init_vm

call_free_pages == ncalls < MaxCalls /\ do_free_pages

call_map_page == ncalls < MaxCalls /\ do_map_page(MapArgs)

call_unmap_page == ncalls < MaxCalls /\ do_unmap_page(InPages \cup {OobPage})

call_write_vmem == ncalls < MaxCalls /\ do_write_vmem(WriteArgs)

call_read_vmem == ncalls < MaxCalls /\ do_read_vmem(Addrs)

Next ==
  \/ call_init_vm
  \/ call_free_pages
  \/ call_map_page
  \/ call_unmap_page
  \/ call_write_vmem
  \/ call_read_vmem

Spec == Init /\ [][Next]_vars

\* ---- test_physical_memory_exhaustion: the loop writes the first byte of
\* page i = 0, 1, ... (the call counter is the loop index) until every frame
\* is handed out; then up to MaxCalls further calls
ExhAddrs == {0, PAGE_SIZE, RAM_SIZE, (NUM_PHYS_PAGES + 1) * PAGE_SIZE}
ExhPages == {0, 1}
ExhMapArgs == {<<p, f, PTE_READ + PTE_WRITE>> : p \in ExhPages, f \in {0, 1}}
ExhMore == ncalls >= NUM_PHYS_PAGES /\ ncalls < NUM_PHYS_PAGES + MaxCalls

test_fill ==
  /\ ncalls < NUM_PHYS_PAGES
  /\ do_write_vmem({<<ncalls * PAGE_SIZE, ncalls % 256>>})

exh_init_vm == ExhMore /\ do_init_vm

exh_free_pages == ExhMore /\ do_free_pages

exh_map_page == ExhMore /\ do_map_page(ExhMapArgs)

exh_unmap_page == ExhMore /\ do_unmap_page(ExhPages)

exh_write_vmem == ExhMore /\ do_write_vmem({<<a, 153>> : a \in ExhAddrs})

exh_read_vmem == ExhMore /\ do_read_vmem(ExhAddrs)

NextExh ==
  \/ test_fill
  \/ exh_init_vm
  \/ exh_free_pages
  \/ exh_map_page
  \/ exh_unmap_page
  \/ exh_write_vmem
  \/ exh_read_vmem

SpecExh == Init /\ [][NextExh]_vars

\* ---- demand paging only: read_vmem, write_vmem and unmap_page, never an
\* explicit map_page; two in-range pages, and two addresses >= RAM_SIZE whose
\* 16-bit page numbers are 256 and 1
DemAddrs == {0, PAGE_SIZE, RAM_SIZE, 268435456 + PAGE_SIZE}
DemPages == {0, 1, OobPage}
DemMore == ncalls < MaxCalls + 2

dem_write_vmem == DemMore /\ do_write_vmem({<<a, 170>> : a \in DemAddrs})

dem_read_vmem == DemMore /\ do_read_vmem(DemAddrs)

dem_unmap_page == DemMore /\ do_unmap_page(DemPages)

NextDemand ==
  \/ dem_write_vmem
  \/ dem_read_vmem
  \/ dem_unmap_page

SpecDemand == Init /\ [][NextDemand]_vars

\* ---- direct callers of translate: page 0 (first byte) and page 1 (last
\* byte) are mapped on the last frame by map_page or faulted in by
\* write_vmem, unmapped, and translated for reading and for writing; one
\* address is RAM_SIZE
TrAddrs == {0, PAGE_SIZE + PAGE_SIZE - 1, RAM_SIZE}
TrMapArgs == {<<p, NUM_PHYS_PAGES - 1, fl>> : p \in {0, 1}, fl \in PermSets}
TrMore == ncalls < MaxCalls + 1

tr_map_page == TrMore /\ do_map_page(TrMapArgs)

tr_unmap_page == TrMore /\ do_unmap_page({0, 1})

tr_write_vmem == TrMore /\ do_write_vmem({<<0, 170>>})

tr_translate ==
  TrMore /\ do_translate({<<a, w>> : a \in TrAddrs, w \in BOOLEAN})

NextTranslate ==
  \/ tr_map_page
  \/ tr_unmap_page
  \/ tr_write_vmem
  \/ tr_translate

SpecTranslate == Init /\ [][NextTranslate]_vars

\* ---- two concurrent accesses. An access either runs as one atomic unit
\* (the whole of write_vmem/read_vmem in one step) or in the steps the calls
\* inside it mark out: translate, allocate_phys_page, map_page, the second
\* translate, the RAM access.
ConcAddrs == {0, PAGE_SIZE - 1, PAGE_SIZE}

Install(s) ==
  /\ page_table' = s.page_table
  /\ phys_pages_used' = s.phys_pages_used
  /\ RAM' = s.RAM
  /\ stats' = s.stats
  /\ UNCHANGED <<hist, ncalls>>

Returned(t, ret, out) ==
  thr' = [thr EXCEPT ![t] = [@ EXCEPT !.pc = "done", !.ret = ret, !.out = out]]

Goto(t, pc) == thr' = [thr EXCEPT ![t] = [@ EXCEPT !.pc = pc]]

\* a caller enters write_vmem(vaddr, 0xAA) or read_vmem(vaddr, &out)
conc_call ==
  \E t \in Threads, op \in {"read_vmem", "write_vmem"}, vaddr \in ConcAddrs,
     atomic \in BOOLEAN :
    /\ t \notin DOMAIN thr
    /\ thr' = thr @@ (t :> [pc |-> "translate", op |-> op, vaddr |-> vaddr,
                            val |-> 170, atomic |-> atomic, phys_page |-> -1,
                            paddr |-> -1, ret |-> -1, out |-> -1])
    /\ UNCHANGED <<page_table, phys_pages_used, RAM, stats, hist, ncalls>>

\* the whole access under the exclusion lock
conc_atomic ==
  \E t \in Threads :
    /\ t \in DOMAIN thr /\ thr[t].pc = "translate" /\ thr[t].atomic
    /\ LET r == IF thr[t].op = "write_vmem"
                  THEN write_vmem(Globals, thr[t].vaddr, thr[t].val)
                  ELSE read_vmem(Globals, thr[t].vaddr)
       IN Install(r.s) /\ Returned(t, r.ret, r.out)

\* res = translate(vaddr, &paddr, is_write), first or second time
conc_translate ==
  \E t \in Threads :
    /\ t \in DOMAIN thr
    /\ thr[t].pc \in {"translate", "retry"} /\ ~thr[t].atomic
    /\ LET r == translate(Globals, thr[t].vaddr, thr[t].op = "write_vmem")
       IN /\ Install(r.s)
          /\ IF thr[t].pc = "translate" /\ NeedsFault(r.ret)
               THEN Goto(t, "fault")
             ELSE IF r.ret # 0
               THEN Returned(t, -1, -1)
             ELSE thr' = [thr EXCEPT ![t] = [@ EXCEPT !.pc = "access",
                                                      !.paddr = r.paddr]]

\* page_fault_handler up to the return of allocate_phys_page
conc_allocate ==
  \E t \in Threads :
    /\ t \in DOMAIN thr /\ thr[t].pc = "fault"
    /\ LET a == allocate_phys_page(
                  [Globals EXCEPT !.stats.page_faults = Inc32(@)])
       IN /\ Install(a.s)
          /\ IF a.ret < 0
               THEN Returned(t, -1, -1)
               ELSE thr' = [thr EXCEPT ![t] = [@ EXCEPT !.pc = "map",
                                                        !.phys_page = a.ret]]

\* page_fault_handler's map_page(virt_page, phys_page, PTE_READ | PTE_WRITE)
conc_map ==
  \E t \in Threads :
    /\ t \in DOMAIN thr /\ thr[t].pc = "map"
    /\ LET r == map_page(Globals, U16(thr[t].vaddr \div 4096),
                         U16(thr[t].phys_page), PTE_READ + PTE_WRITE)
       IN /\ Install(r.s)
          /\ IF r.ret # 0 THEN Returned(t, -1, -1) ELSE Goto(t, "retry")

\* RAM[paddr] = val; stats.writes++ or *out = RAM[paddr]; stats.reads++
conc_access ==
  \E t \in Threads :
    /\ t \in DOMAIN thr /\ thr[t].pc = "access"
    /\ IF thr[t].op = "write_vmem"
         THEN /\ Install([Globals EXCEPT
                            !.RAM = RAMset(@, thr[t].paddr, thr[t].val),
                            !.stats.writes = Inc32(@)])
              /\ Returned(t, 0, -1)
         ELSE /\ Install([Globals EXCEPT !.stats.reads = Inc32(@)])
              /\ Returned(t, 0, RAMget(RAM, thr[t].paddr))

NextConc ==
  \/ conc_call
  \/ conc_atomic
  \/ conc_translate
  \/ conc_allocate
  \/ conc_map
  \/ conc_access

SpecConc == Init /\ [][NextConc]_vars

\* ------------------------------------------------------ reading the state
\* the call a step performs, and the call before it
Cur == hist'[Len(hist')]
Last == hist[Len(hist)]

IsAccess(c) == c.op \in {"read_vmem", "write_vmem"}
InRange(vaddr) == vaddr < RAM_SIZE
PageOf(vaddr) == vaddr \div PAGE_SIZE

\* the page-table entry of virtual page p (an absent table has no entries)
PTE(pt, p) ==
  LET t == pt.tables[(p \div 16) % 16]
  IN IF t = NULL THEN [phys_page |-> -1, flags |-> 0] ELSE t.entries[p % 16]

\* page p has a valid mapping: what translate requires before it looks at
\* the permissions
Mapped(pt, p) ==
  PTE(pt, p).phys_page >= 0 /\ HasFlag(PTE(pt, p).flags, PTE_VALID)

CanRead(pt, p) == Mapped(pt, p) /\ HasFlag(PTE(pt, p).flags, PTE_READ)
CanWrite(pt, p) == Mapped(pt, p) /\ HasFlag(PTE(pt, p).flags, PTE_WRITE)

RW == PTE_READ + PTE_WRITE

\* the bytes of frame f
FrameBytes(ram, f) ==
  [x \in {y \in DOMAIN ram : y \div PAGE_SIZE = f} |-> ram[x]]

\* what read_vmem would return for address a in globals s
ReadBack(s, a) == LET r == read_vmem(s, a) IN <<r.ret, r.out>>

\* ------------------------------------------------------------------ claims

\* C1 -- round trip: after a successful map_page(p, f, READ|WRITE), a
\* write_vmem(a, v) at an address a of page p followed immediately by
\* read_vmem(a) both succeed, and the read returns v.
C1_Step ==
  (/\ Len(hist) = 2
   /\ hist[1].op = "map_page" /\ hist[1].ret = 0 /\ hist[1].a3 = RW
   /\ hist[2].op = "write_vmem" /\ PageOf(hist[2].a1) = hist[1].a1
   /\ Cur.op = "read_vmem" /\ Cur.a1 = hist[2].a1)
  => (hist[2].ret = 0 /\ Cur.ret = 0 /\ Cur.out = hist[2].a2)

C1_RoundTrip == [][C1_Step]_vars

\* the round trip has run on the last byte of a page that an explicit
\* map_page put on the last frame (the allocator hands out frame 0 first)
C1_Witness ==
  /\ Len(hist) = 2
  /\ hist[1].op = "write_vmem" /\ hist[1].ret = 0
  /\ hist[1].a1 % PAGE_SIZE = PAGE_SIZE - 1
  /\ hist[2].op = "read_vmem" /\ hist[2].a1 = hist[1].a1
  /\ hist[2].ret = 0 /\ hist[2].out = hist[1].a2
  /\ PTE(page_table, PageOf(hist[1].a1)) =
       [phys_page |-> NUM_PHYS_PAGES - 1, flags |-> PTE_VALID + RW]

\* a call is a successful write_vmem that was served by a page fault
FaultingWrite(c) ==
  c.op = "write_vmem" /\ InRange(c.a1) /\ c.ret = 0 /\ c.pf = 1

\* the step is a write_vmem to an in-range page without a valid mapping
\* while a frame is free
C2_FirstTouch ==
  /\ Cur.op = "write_vmem" /\ InRange(Cur.a1)
  /\ ~Mapped(page_table, PageOf(Cur.a1))
  /\ FirstFree(phys_pages_used) >= 0

\* the step is an access to the page that call w wrote to, and it succeeds
\* without a fault and, if it reads the written address, returns the byte
C2_SecondTouch(w) ==
  (IsAccess(Cur) /\ InRange(Cur.a1) /\ PageOf(Cur.a1) = PageOf(w.a1))
  => /\ Cur.ret = 0
     /\ stats'.page_faults = stats.page_faults
     /\ (Cur.op = "read_vmem" /\ Cur.a1 = w.a1) => Cur.out = w.a2

\* C2 (as amended) -- demand paging: with a free frame, write_vmem to an
\* in-range page without a valid mapping succeeds and raises page_faults by
\* exactly 1; the read_vmem or write_vmem that immediately follows it, at any
\* address of the same page, succeeds with page_faults unchanged, and a read
\* of the written address returns the written byte.
C2_Step ==
  /\ C2_FirstTouch =>
       (Cur.ret = 0 /\ stats'.page_faults = stats.page_faults + 1)
  /\ (Len(hist) >= 1 /\ FaultingWrite(Last)) => C2_SecondTouch(Last)

C2_OriginalStep ==
  (/\ Len(hist) = 2
   /\ FaultingWrite(hist[1])
   /\ hist[2].op = "map_page" /\ hist[2].ret = 0)
  => C2_SecondTouch(hist[1])

C3_Denied ==
  /\ Cur.ret # 0
  /\ stats'.page_faults = stats.page_faults
  /\ PTE(page_table', PageOf(Cur.a1)) = PTE(page_table, PageOf(Cur.a1))
  /\ phys_pages_used' = phys_pages_used
  /\ RAM' = RAM

C3_Step ==
  (IsAccess(Cur) /\ InRange(Cur.a1)) =>
    LET p == PageOf(Cur.a1)
        ro == CanRead(page_table, p) /\ ~CanWrite(page_table, p)
        wo == CanWrite(page_table, p) /\ ~CanRead(page_table, p)
    IN /\ (ro /\ Cur.op = "read_vmem") => Cur.ret = 0
       /\ (ro /\ Cur.op = "write_vmem") => C3_Denied
       /\ (wo /\ Cur.op = "write_vmem") => Cur.ret = 0
       /\ (wo /\ Cur.op = "read_vmem") => C3_Denied

C3_PermissionAsymmetry == [][C3_Step]_vars

\* a page was mapped READ only and the write to it has failed
C3_Witness ==
  /\ Len(hist) = 2
  /\ hist[1].op = "map_page" /\ hist[1].ret = 0 /\ hist[1].a3 = PTE_READ
  /\ hist[2].op = "write_vmem" /\ PageOf(hist[2].a1) = hist[1].a1
  /\ hist[2].ret = -1 /\ hist[2].pf = 0
  /\ PTE(page_table, hist[1].a1) =
       [phys_page |-> hist[1].a2, flags |-> PTE_VALID + PTE_READ]

\* C4 -- bounds: write_vmem and read_vmem at an address >= RAM_SIZE fail, and
\* map_page with a virtual page >= 256 or a physical frame >= 256 fails.
C4_Call(c) ==
  /\ (IsAccess(c) /\ c.a1 >= RAM_SIZE) => c.ret # 0
  /\ (c.op = "map_page" /\ (c.a1 >= 256 \/ c.a2 >= 256)) => c.ret # 0

C4_Bounds == \A i \in DOMAIN hist : C4_Call(hist[i])

\* an out-of-range write on a mapped address space and an out-of-range
\* map_page have both been refused
C4_Witness ==
  /\ Len(hist) = 2
  /\ hist[1].op = "write_vmem" /\ hist[1].a1 >= RAM_SIZE /\ hist[1].ret = -1
  /\ hist[2].op = "map_page" /\ hist[2].a2 >= 256 /\ hist[2].ret = -1
  /\ Mapped(page_table, 0)

\* C5 -- an access at an address >= RAM_SIZE is returned without fault
\* service: page_faults, the page table, the frame-used bitmap and the
\* physical store are unchanged.
C5_Step ==
  (IsAccess(Cur) /\ Cur.a1 >= RAM_SIZE) =>
    /\ stats'.page_faults = stats.page_faults
    /\ page_table' = page_table
    /\ phys_pages_used' = phys_pages_used
    /\ RAM' = RAM

C5_OobNoFaultService == [][C5_Step]_vars

\* C6 -- exhaustion (under SpecExh): the NUM_PHYS_PAGES faulting writes of the
\* fill loop all succeed and leave every frame used; and whenever no frame
\* is free, an access to an in-range page without a valid mapping fails and
\* leaves every validly mapped page on its frame, with its permissions and
\* its stored bytes.
C6_Fill ==
  ncalls < NUM_PHYS_PAGES =>
    /\ Cur.ret = 0 /\ Cur.pf = 1
    /\ ncalls' = NUM_PHYS_PAGES =>
         phys_pages_used' = 0..(NUM_PHYS_PAGES - 1)

C6_NoFrame ==
  (/\ IsAccess(Cur) /\ InRange(Cur.a1)
   /\ ~Mapped(page_table, PageOf(Cur.a1))
   /\ FirstFree(phys_pages_used) < 0)
  => /\ Cur.ret # 0
     /\ \A p \in 0..(L1_ENTRIES * L2_ENTRIES - 1) :
          Mapped(page_table, p) =>
            /\ PTE(page_table', p) = PTE(page_table, p)
            /\ FrameBytes(RAM', PTE(page_table, p).phys_page) =
                 FrameBytes(RAM, PTE(page_table, p).phys_page)

C6_Exhaustion == [][C6_Fill /\ C6_NoFrame]_vars

\* after the fill, a page was unmapped and its frame given to another page;
\* the write to the unmapped page then found no frame and failed
C6_Witness ==
  /\ ncalls > NUM_PHYS_PAGES
  /\ Len(hist) = 2
  /\ hist[2].op = "write_vmem" /\ InRange(hist[2].a1)
  /\ hist[2].ret = -1 /\ hist[2].pf = 1
  /\ ~Mapped(page_table, PageOf(hist[2].a1))
  /\ FirstFree(phys_pages_used) < 0
  /\ \E p \in 0..(L1_ENTRIES * L2_ENTRIES - 1) : Mapped(page_table, p)

\* call c leaves page p validly mapped
Established(c, p) ==
  \/ c.op = "map_page" /\ c.a1 = p /\ c.ret = 0
  \/ IsAccess(c) /\ InRange(c.a1) /\ PageOf(c.a1) = p /\ c.ret = 0

\* C7 -- unmap semantics: after a successful unmap_page(p) of a validly
\* mapped page p, the next read_vmem or write_vmem on p is served by a fresh
\* fault: it succeeds, page_faults rises by exactly 1, and p is mapped
\* READ|WRITE to the frame the allocator hands out (the first free one).
C7_Step ==
  (/\ Len(hist) = 2
   /\ Established(hist[1], hist[2].a1)
   /\ hist[2].op = "unmap_page" /\ hist[2].ret = 0
   /\ IsAccess(Cur) /\ InRange(Cur.a1) /\ PageOf(Cur.a1) = hist[2].a1)
  => /\ Cur.ret = 0
     /\ stats'.page_faults = stats.page_faults + 1
     /\ FirstFree(phys_pages_used) >= 0
     /\ PTE(page_table', hist[2].a1) =
          [phys_page |-> FirstFree(phys_pages_used), flags |-> PTE_VALID + RW]

C8_Step ==
  /\ (/\ Len(hist) >= 1
      /\ Last.op = "map_page" /\ Last.ret = 0
      /\ Cur.op = "write_vmem" /\ InRange(Cur.a1)
      /\ PageOf(Cur.a1) = Last.a1 + 1
      /\ ~Mapped(page_table, PageOf(Cur.a1)))
     => Cur.ret # 0
  /\ (/\ Len(hist) >= 1
      /\ Last.op = "unmap_page"
      /\ Cur.op = "read_vmem" /\ InRange(Cur.a1)
      /\ PageOf(Cur.a1) = Last.a1)
     => Cur.ret # 0

C8_UnmappedAccessFails == [][C8_Step]_vars

\* C9 -- unmap_page(p), p in 0..255, of a page whose second-level table was
\* never allocated returns success and changes nothing; unmap_page fails
\* only for p >= 256.
C9_Step ==
  Cur.op = "unmap_page" =>
    /\ (/\ Cur.a1 < L1_ENTRIES * L2_ENTRIES
        /\ page_table.tables[(Cur.a1 \div 16) % 16] = NULL)
       => /\ Cur.ret = 0
          /\ UNCHANGED <<page_table, phys_pages_used, RAM, stats>>
    /\ Cur.ret # 0 => Cur.a1 >= L1_ENTRIES * L2_ENTRIES

C9_UnmapAbsentTable == [][C9_Step]_vars

\* C10 -- no cross-page interference: a successful write_vmem to a validly
\* mapped page changes nothing that read_vmem returns for an address of
\* another validly mapped page on a different frame.
C10_Step ==
  (/\ Cur.op = "write_vmem" /\ Cur.ret = 0 /\ InRange(Cur.a1)
   /\ Mapped(page_table, PageOf(Cur.a1)))
  => \A a \in InAddrs :
       (/\ PageOf(a) # PageOf(Cur.a1)
        /\ Mapped(page_table, PageOf(a))
        /\ PTE(page_table, PageOf(a)).phys_page #
             PTE(page_table, PageOf(Cur.a1)).phys_page)
       => ReadBack(Globals', a) = ReadBack(Globals, a)

C10_NoCrossPage == [][C10_Step]_vars

\* two pages on different frames were written at the same offset with
\* different bytes, and the first still reads back its own byte
C10_Witness ==
  /\ Len(hist) = 2
  /\ hist[1].op = "write_vmem" /\ hist[1].ret = 0
  /\ hist[2].op = "write_vmem" /\ hist[2].ret = 0 /\ hist[2].pf = 0
  /\ InRange(hist[1].a1) /\ InRange(hist[2].a1)
  /\ PageOf(hist[1].a1) # PageOf(hist[2].a1)
  /\ hist[1].a1 % PAGE_SIZE = hist[2].a1 % PAGE_SIZE
  /\ hist[1].a2 # hist[2].a2
  /\ PTE(page_table, PageOf(hist[1].a1)).phys_page #
       PTE(page_table, PageOf(hist[2].a1)).phys_page
  /\ ReadBack(Globals, hist[1].a1) = <<0, hist[1].a2>>
  /\ ReadBack(Globals, hist[2].a1) = <<0, hist[2].a2>>

\* C11 -- zero-fill-on-demand: a frame handed out by fault service is all
\* zero before the faulting access touches it.  A read_vmem served by a fault
\* returns 0 and leaves the frame all zero; after a write_vmem served by a
\* fault the frame holds the written byte and nothing else.
C11_Step ==
  (IsAccess(Cur) /\ InRange(Cur.a1) /\ Cur.ret = 0 /\ Cur.pf = 1) =>
    LET f == PTE(page_table', PageOf(Cur.a1)).phys_page
        paddr == f * PAGE_SIZE + (Cur.a1 % PAGE_SIZE)
    IN /\ Cur.op = "read_vmem" =>
            (Cur.out = 0 /\ FrameBytes(RAM', f) = <<>>)
       /\ Cur.op = "write_vmem" =>
            FrameBytes(RAM', f) = RAMset(<<>>, paddr, Cur.a2)

C11_ZeroFill == [][C11_Step]_vars

\* a byte was written to a page on frame 0, the page was unmapped, and the
\* read that faulted the page back onto frame 0 found the frame zeroed
C11_Witness ==
  /\ ncalls = 3 /\ Len(hist) = 2
  /\ hist[1].op = "unmap_page" /\ hist[1].ret = 0
  /\ hist[2].op = "read_vmem" /\ PageOf(hist[2].a1) = hist[1].a1
  /\ hist[2].a1 % PAGE_SIZE = PAGE_SIZE - 1
  /\ hist[2].ret = 0 /\ hist[2].pf = 1 /\ hist[2].out = 0
  /\ stats.writes = 1 /\ stats.reads = 1
  /\ phys_pages_used = {0}
  /\ PTE(page_table, hist[1].a1).phys_page = 0
  /\ RAM = <<>>

\* C12 -- init resets and is idempotent: after init_vm, in any state, no
\* virtual page is mapped (translate misses at every in-range address), every
\* frame is free and the four counters are zero; a second init_vm right after
\* the first changes nothing.
C12_Step ==
  Cur.op = "init_vm" =>
    /\ \A p \in 0..(L1_ENTRIES * L2_ENTRIES - 1) : ~Mapped(page_table', p)
    /\ \A a \in InAddrs, w \in BOOLEAN : translate(Globals', a, w).ret = -1
    /\ phys_pages_used' = {}
    /\ stats' = [page_faults |-> 0, reads |-> 0, writes |-> 0,
                 translation_failures |-> 0]
    /\ init_vm(Globals').s = Globals'
    /\ (Len(hist) >= 1 /\ Last.op = "init_vm") => Globals' = Globals

C12_InitResets == [][C12_Step]_vars

\* a faulting write, then init_vm twice: nothing is mapped or used, and the
\* written byte is still in RAM
C12_Witness ==
  /\ ncalls = 3 /\ Len(hist) = 2
  /\ hist[1].op = "init_vm" /\ hist[2].op = "init_vm"
  /\ RAM # <<>>
  /\ phys_pages_used = {}
  /\ stats.page_faults = 0 /\ stats.writes = 0
  /\ \A p \in InPages : ~Mapped(page_table, p)

\* C13 -- frame-used invariant: in every state reached by init_vm, map_page,
\* unmap_page, read_vmem and write_vmem, every frame referenced by a valid
\* page-table entry is marked used in the bitmap.
C13_FrameUsed ==
  \A p \in 0..(L1_ENTRIES * L2_ENTRIES - 1) :
    Mapped(page_table, p) => PTE(page_table, p).phys_page \in phys_pages_used

\* C14 -- demand paging never creates aliases: in every state reached from
\* program start by read_vmem, write_vmem and unmap_page only, no two
\* distinct virtual pages with valid entries reference the same frame.
C14_NoAlias ==
  LET valid == {p \in 0..(L1_ENTRIES * L2_ENTRIES - 1) : Mapped(page_table, p)}
  IN \A p, q \in valid :
       p # q => PTE(page_table, p).phys_page # PTE(page_table, q).phys_page

\* page 0 was faulted in on frame 0 and unmapped, page 1 then took the freed
\* frame 0 and page 0 was faulted in again on frame 1
C14_Witness ==
  /\ ncalls = 4
  /\ stats.page_faults = 3
  /\ Mapped(page_table, 0) /\ PTE(page_table, 0).phys_page = 1
  /\ Mapped(page_table, 1) /\ PTE(page_table, 1).phys_page = 0
  /\ phys_pages_used = {0, 1}

\* C15 -- single retry bound: one read_vmem or write_vmem call, from any
\* reached state and for any address, raises page_faults by at most 1 and
\* translation_failures by at most 2 (by at most 1 when it did not fault),
\* and it returns 0 or -1.
C15_Step ==
  IsAccess(Cur) =>
    LET tf == stats'.translation_failures - stats.translation_failures
    IN /\ Cur.pf \in {0, 1}
       /\ tf \in 0..2
       /\ Cur.pf = 0 => tf \in {0, 1}
       /\ Cur.ret \in {0, -1}

C15_SingleRetry == [][C15_Step]_vars

\* the first call writes at 0x10001000: translate fails, the handler maps
\* page 1, and the one retry fails again
C15_Witness ==
  /\ ncalls = 1
  /\ hist[1].op = "write_vmem" /\ hist[1].a1 = 268435456 + PAGE_SIZE
  /\ hist[1].ret = -1 /\ hist[1].pf = 1
  /\ stats.page_faults = 1 /\ stats.translation_failures = 2
  /\ Mapped(page_table, 1)

\* C16 -- overwrite leak: a successful map_page(p, f2, flags) on a page p
\* validly mapped to a frame f1 # f2 replaces the entry (p translates to f2,
\* with VALID plus the new flags), marks f2 used and leaves f1 as it was
\* marked; afterwards no unmap_page frees f1 unless the entry it clears
\* references f1. In every step, a frame leaves the bitmap only by init_vm or
\* by unmap_page of an entry that references it.
C16_Overwrite ==
  /\ Cur.op = "map_page" /\ Cur.ret = 0
  /\ Mapped(page_table, Cur.a1)
  /\ PTE(page_table, Cur.a1).phys_page # Cur.a2

C16_Step ==
  /\ C16_Overwrite =>
       LET p  == Cur.a1
           f1 == PTE(page_table, p).phys_page
           f2 == Cur.a2
       IN /\ PTE(page_table', p) =
               [phys_page |-> f2, flags |-> OrFlag(Cur.a3, PTE_VALID)]
          /\ \A w \in BOOLEAN :
               LET t == translate(Globals', p * PAGE_SIZE + 1, w)
               IN IF PermDenied(Cur.a3, w)
                    THEN t.ret = -2
                    ELSE t.ret = 0 /\ t.paddr = f2 * PAGE_SIZE + 1
          /\ phys_pages_used' = phys_pages_used \cup {f2}
          /\ \A q \in InPages \cup {OobPage} :
               (/\ f1 \in phys_pages_used'
                /\ f1 \notin unmap_page(Globals', q).s.phys_pages_used)
               => /\ q # p
                  /\ Mapped(page_table', q)
                  /\ PTE(page_table', q).phys_page = f1
  /\ \A f \in phys_pages_used \ phys_pages_used' :
       \/ Cur.op = "init_vm"
       \/ /\ Cur.op = "unmap_page" /\ Cur.ret = 0
          /\ PTE(page_table, Cur.a1).phys_page = f

C16_OverwriteLeak == [][C16_Step]_vars

\* page 0 was on frame 0, map_page(0, 255, .) overwrote the entry and
\* unmap_page(0) freed frame 255: frame 0 is still marked used and nothing
\* references it
C16_Witness ==
  /\ ncalls = 3 /\ Len(hist) = 2
  /\ hist[1].op = "map_page" /\ hist[1].a1 = 0 /\ hist[1].a2 = 255
  /\ hist[1].ret = 0
  /\ hist[2].op = "unmap_page" /\ hist[2].a1 = 0 /\ hist[2].ret = 0
  /\ phys_pages_used = {0}
  /\ \A p \in 0..(L1_ENTRIES * L2_ENTRIES - 1) : ~Mapped(page_table, p)

\* C17 -- translate has no effect other than the failure counter (under
\* SpecTranslate): a call of translate, for any address and write intent,
\* leaves the page table, the bitmap, RAM and page_faults/reads/writes
\* unchanged, raises translation_failures by 1 when it fails and by 0 when
\* it succeeds, and on success returns frame * PAGE_SIZE + (address mod
\* PAGE_SIZE) for the frame of the page's entry, which is the frame the last
\* map_page of that page installed.
C17_LastMapped(c, a) == c.op = "map_page" /\ c.ret = 0 /\ c.a1 = PageOf(a)

C17_Step ==
  Cur.op = "translate" =>
    LET a   == Cur.a1
        off == a % PAGE_SIZE
    IN /\ page_table' = page_table
       /\ phys_pages_used' = phys_pages_used
       /\ RAM' = RAM
       /\ stats'.page_faults = stats.page_faults
       /\ stats'.reads = stats.reads
       /\ stats'.writes = stats.writes
       /\ Cur.ret \in {0, -1, -2}
       /\ Cur.ret # 0 =>
            stats'.translation_failures = stats.translation_failures + 1
       /\ Cur.ret = 0 =>
            /\ stats'.translation_failures = stats.translation_failures
            /\ InRange(a)
            /\ Cur.out = PTE(page_table, PageOf(a)).phys_page * PAGE_SIZE + off
            /\ (Len(hist) >= 1 /\ C17_LastMapped(Last, a))
               => Cur.out = Last.a2 * PAGE_SIZE + off
            /\ (/\ Len(hist) = 2 /\ C17_LastMapped(hist[1], a)
                /\ hist[2].op = "translate")
               => Cur.out = hist[1].a2 * PAGE_SIZE + off

C17_TranslatePure == [][C17_Step]_vars

\* page 1 is mapped read-only on the last frame; translate of its last byte
\* for reading gave RAM_SIZE - 1, translate for writing gave -2 and counted
\* one failure
C17_Witness ==
  /\ ncalls = 3 /\ Len(hist) = 2
  /\ hist[1].op = "translate" /\ hist[1].a1 = PAGE_SIZE + PAGE_SIZE - 1
  /\ hist[1].a2 = 0 /\ hist[1].ret = 0 /\ hist[1].out = RAM_SIZE - 1
  /\ hist[2].op = "translate" /\ hist[2].a1 = PAGE_SIZE + PAGE_SIZE - 1
  /\ hist[2].a2 = 1 /\ hist[2].ret = -2
  /\ PTE(page_table, 1) =
       [phys_page |-> NUM_PHYS_PAGES - 1, flags |-> PTE_READ + PTE_VALID]
  /\ stats.translation_failures = 1

\* the pages with a valid entry, found through the allocated second-level
\* tables only
ValidPages(pt) ==
  LET l1s == {i \in 0..(L1_ENTRIES - 1) : pt.tables[i] # NULL}
  IN {p \in {l1 * L2_ENTRIES + l2 : l1 \in l1s, l2 \in 0..(L2_ENTRIES - 1)} :
        Mapped(pt, p)}

\* C18 -- InternalInconsistency is unreachable: in every reached state every
\* valid entry holds a frame index in 0..255, so the physical address that
\* translate computes for it is below RAM_SIZE at every offset.
C18_FrameInRange ==
  \A l1 \in 0..(L1_ENTRIES - 1) :
    page_table.tables[l1] # NULL =>
      \A l2 \in 0..(L2_ENTRIES - 1) :
        LET entry == page_table.tables[l1].entries[l2]
        IN (entry.phys_page >= 0 /\ HasFlag(entry.flags, PTE_VALID)) =>
             /\ entry.phys_page < NUM_PHYS_PAGES
             /\ PhysAddr(entry.phys_page, PAGE_SIZE - 1) < RAM_SIZE

\* page 0 sits on the last frame and its last byte was written: the byte is
\* at the highest physical address, RAM_SIZE - 1
C18_Witness ==
  /\ Len(hist) = 2
  /\ hist[1].op = "map_page" /\ hist[1].ret = 0
  /\ hist[1].a1 = 0 /\ hist[1].a2 = NUM_PHYS_PAGES - 1
  /\ hist[2].op = "write_vmem" /\ hist[2].ret = 0
  /\ hist[2].a1 = PAGE_SIZE - 1 /\ hist[2].a2 = 187
  /\ ValidPages(page_table) = {0}
  /\ RAMget(RAM, RAM_SIZE - 1) = 187

\* C19 -- teardown (under SpecExh): free_pages releases every second-level
\* table, so no page is mapped and translate misses, and it leaves the
\* bitmap, the counters and RAM unchanged. The call after it frees no frame
\* unless it is init_vm, and a fault it serves takes a frame that was free at
\* the teardown. Two calls after it, with no init_vm, a frame is freed only
\* by unmap_page of the page whose entry the call in between installed.
C19_Teardown ==
  Cur.op = "free_pages" =>
    /\ \A i \in 0..(L1_ENTRIES - 1) : page_table'.tables[i] = NULL
    /\ \A p \in 0..(L1_ENTRIES * L2_ENTRIES - 1) : ~Mapped(page_table', p)
    /\ \A a \in ExhAddrs, w \in BOOLEAN : translate(Globals', a, w).ret = -1
    /\ phys_pages_used' = phys_pages_used
    /\ stats' = stats
    /\ RAM' = RAM

C19_Next ==
  (Len(hist) >= 1 /\ Last.op = "free_pages" /\ Cur.op # "init_vm") =>
    /\ phys_pages_used \subseteq phys_pages_used'
    /\ (IsAccess(Cur) /\ Cur.ret = 0) =>
         /\ Cur.pf = 1
         /\ PTE(page_table', PageOf(Cur.a1)).phys_page \notin phys_pages_used

C19_Installed(c, p, f) ==
  \/ c.op = "map_page" /\ c.ret = 0 /\ c.a1 = p /\ c.a2 = f
  \/ IsAccess(c) /\ c.pf = 1 /\ U16(c.a1 \div PAGE_SIZE) = p

C19_Later ==
  (/\ Len(hist) = 2
   /\ hist[1].op = "free_pages"
   /\ hist[2].op # "init_vm" /\ Cur.op # "init_vm")
  => \A f \in phys_pages_used \ phys_pages_used' :
       /\ Cur.op = "unmap_page" /\ Cur.ret = 0
       /\ C19_Installed(hist[2], Cur.a1, f)

C19_TeardownKeepsFrames == [][C19_Teardown /\ C19_Next /\ C19_Later]_vars

\* every frame was used at the teardown; map_page(0, 0, .) and unmap_page(0)
\* followed: frame 0 is free again without init_vm, the other frames are
\* still used and none of their tables exists
C19_Witness ==
  /\ ncalls = NUM_PHYS_PAGES + 3 /\ Len(hist) = 2
  /\ hist[1].op = "map_page" /\ hist[1].ret = 0
  /\ hist[1].a1 = 0 /\ hist[1].a2 = 0
  /\ hist[2].op = "unmap_page" /\ hist[2].ret = 0 /\ hist[2].a1 = 0
  /\ phys_pages_used = 1..(NUM_PHYS_PAGES - 1)
  /\ \A i \in 1..(L1_ENTRIES - 1) : page_table.tables[i] = NULL
  /\ ValidPages(page_table) = {}
  /\ stats.page_faults = NUM_PHYS_PAGES

\* the claim as stated: the teardown is the first call after the fill loop,
\* so every frame was used before it; with no init_vm in the two calls after
\* it, every frame is still used
C19_OriginalStep ==
  (/\ ncalls = NUM_PHYS_PAGES + 2
   /\ hist[1].op = "free_pages"
   /\ hist[2].op # "init_vm" /\ Cur.op # "init_vm")
  => phys_pages_used' = 0..(NUM_PHYS_PAGES - 1)

C19_Original == [][C19_OriginalStep]_vars

\* C20 -- non-atomic faults orphan frames (under SpecConc): when two
\* accesses to the same unmapped in-range page have both returned, then if
\* each ran atomically exactly one frame was allocated and the page maps to
\* it; and if both allocated a frame, which needs interleaved steps, the
\* frames differ, the page maps to one of them, and the other is marked used
\* but referenced by no valid entry.
C20_Orphans ==
  (/\ \A t \in Threads : t \in DOMAIN thr /\ thr[t].pc = "done"
   /\ PageOf(thr[1].vaddr) = PageOf(thr[2].vaddr))
  => LET p  == PageOf(thr[1].vaddr)
         f1 == thr[1].phys_page
         f2 == thr[2].phys_page
         referenced == {PTE(page_table, q).phys_page :
                          q \in ValidPages(page_table)}
     IN /\ (thr[1].atomic /\ thr[2].atomic) =>
             /\ Cardinality(phys_pages_used) = 1
             /\ stats.page_faults = 1
             /\ Mapped(page_table, p)
             /\ phys_pages_used = {PTE(page_table, p).phys_page}
             /\ thr[1].ret = 0 /\ thr[2].ret = 0
        /\ (f1 >= 0 /\ f2 >= 0) =>
             /\ ~thr[1].atomic /\ ~thr[2].atomic
             /\ f1 # f2
             /\ phys_pages_used = {f1, f2}
             /\ stats.page_faults = 2
             /\ referenced \in {{f1}, {f2}}
             /\ Mapped(page_table, p)

\* both accesses to page 0 ran in separate steps and both allocated: frames
\* 0 and 1 are used, page 0 maps to one of them, nothing references the other
C20_Witness ==
  /\ DOMAIN thr = Threads
  /\ \A t \in Threads : thr[t].pc = "done" /\ ~thr[t].atomic
  /\ PageOf(thr[1].vaddr) = 0 /\ PageOf(thr[2].vaddr) = 0
  /\ {thr[1].phys_page, thr[2].phys_page} = {0, 1}
  /\ phys_pages_used = {0, 1}
  /\ ValidPages(page_table) = {0}
  /\ stats.page_faults = 2

====
